---- MODULE Spec2Model ----
(***************************************************************************)
(* Model of TimeLib.c: a software real-time clock for embedded devices.    *)
(* The module state of TimeLib.c is the state of the model, the public     *)
(* functions time_set, time_get and time_set_provider are its actions, and *)
(* the calendar routines time_make and time_break are operators.           *)
(*                                                                         *)
(* time_t, uint32_t and the unsigned long of tick_get() are 32 bit         *)
(* unsigned integers.  A value v of such a type is the pair <<hi, lo>> of  *)
(* its 16 bit halves, v = hi * 65536 + lo, and the U32 operators are C's   *)
(* arithmetic on them, modulo 2^32.                                        *)
(***************************************************************************)
EXTENDS Integers, Sequences, FiniteSets, TLC

(***************************************************************************)
(* 32 bit unsigned arithmetic.                                             *)
(***************************************************************************)
\* Half of a 32 bit word: 2^16.
W16 == 65536
\* The 32 bit value of a natural number n < 2^31.
U32(n) == <<n \div W16, n % W16>>
\* The natural number of a 32 bit value below 2^31.
U32Int(a) == a[1] * W16 + a[2]
\* a + b modulo 2^32, and the carry out of it.
U32Add(a, b) ==
    LET lo == a[2] + b[2] IN <<(a[1] + b[1] + lo \div W16) % W16, lo % W16>>
U32Carry(a, b) == (a[1] + b[1] + (a[2] + b[2]) \div W16) \div W16
\* a - b modulo 2^32.
U32Sub(a, b) ==
    LET lo == a[2] - b[2] IN <<(a[1] - b[1] + lo \div W16) % W16, lo % W16>>
\* a < b, a <= b.
U32Lt(a, b) == a[1] < b[1] \/ (a[1] = b[1] /\ a[2] < b[2])
U32Leq(a, b) == ~U32Lt(b, a)
\* a * n modulo 2^32, for a natural number n with a[1] * n and a[2] * n
\* below 2^31 - 2^15.
U32Mul(a, n) ==
    LET lo == a[2] * n IN <<(a[1] * n + lo \div W16) % W16, lo % W16>>
\* a / d and a % d for a natural number 3 <= d < 2^15, as natural numbers.
U32Div(a, d) == (a[1] \div d) * W16 + ((a[1] % d) * W16 + a[2]) \div d
U32Rem(a, d) == ((a[1] % d) * W16 + a[2]) % d

(***************************************************************************)
(* Platform and header constants (TimeLib.h and Tick.h).                   *)
(***************************************************************************)
\* Number of ticks of the platform counter in one second.
TICK_SECOND == 1000
TIME_SECS_PER_DAY == 86400
TIME_SECS_PER_HOUR == 3600
TIME_SECS_PER_MINUTE == 60
\* enum enTimeStatus, in its declared order.
E_TIME_NOT_SET == 0
E_TIME_NEEDS_SYNC == 1
E_TIME_OK == 2

(***************************************************************************)
(* Bounds of the model.                                                    *)
(***************************************************************************)
\* Number of times the tick counter is observed to advance between calls.
MaxTickEvents == 2
\* Largest number of iterations of the accumulation loop explored in a call.
MaxIter == 50

\* Amounts by which the tick counter advances between two calls: less than
\* a second, exactly one second, more than two seconds, and a long idle
\* period of 2^32 - 1500 ticks that brings the counter close to its wrap.
LongIdle == <<W16 - 1, W16 - 1500>>
TickSteps == {U32(400), U32(TICK_SECOND), U32(2600), LongIdle}
\* Arguments of time_set: 0, 1000 and 2^32 - 2.
SetValues == {U32(0), U32(1000), <<W16 - 1, W16 - 2>>}
\* Values a provider callback returns (0: time not available).
ProviderValues == {U32(0), U32(600)}
\* Callbacks: 0 is the null pointer, 1 is a function.
Callbacks == {0, 1}
\* Values of the timespan argument of time_set_provider (0: the default).
Timespans == {U32(0), U32(2)}

\* The inputs of the scenarios the specification gives with literal values:
\* steps of fifty seconds, time_set(1000), a provider that returns 0 or
\* 1700000000, two callbacks, and a timespan of 0 or 100 seconds.
ScenarioTickSteps == {U32(50 * TICK_SECOND)}
ScenarioSetValues == {U32(1000)}
ScenarioProviderValues == {U32(0), U32(1700000000)}
ScenarioCallbacks == {0, 1, 2}
ScenarioTimespans == {U32(0), U32(100)}

VARIABLES
    sys_time,               \* TimeLib.c: sys_time
    sync_interval,          \* TimeLib.c: sync_interval
    sync_next,              \* TimeLib.c: sync_next
    last_update,            \* TimeLib.c: last_update
    enTimeCurrentStatus,    \* TimeLib.c: enTimeCurrentStatus
    time_provider_callback, \* TimeLib.c: time_provider_callback
    tick,                   \* value tick_get() returns
    obs,                    \* what the last call did (observation only)
    hist,                   \* history of sets and provider returns (observation only)
    run,                    \* true, unwrapped tick bookkeeping (observation only)
    cal                     \* input and outputs of the calendar routines

vars == <<sys_time, sync_interval, sync_next, last_update, enTimeCurrentStatus,
          time_provider_callback, tick, obs, hist, run, cal>>

clockVars == <<sys_time, sync_interval, sync_next, last_update, enTimeCurrentStatus,
               time_provider_callback, tick, obs, hist, run>>

(***************************************************************************)
(* The module state as one value, for the operators below.                 *)
(***************************************************************************)
Cur == [sys_time |-> sys_time, sync_interval |-> sync_interval,
        sync_next |-> sync_next, last_update |-> last_update,
        status |-> enTimeCurrentStatus, cb |-> time_provider_callback]

\* static int time_is_leap(unsigned int year)
time_is_leap(year) ==
    (year % 4 = 0 /\ year % 100 # 0) \/ year % 400 = 0

\* A variant of time_set with a slip in it: last_update is left as it was.
time_set_KeepMark(s, now, t) ==
    [s EXCEPT !.sys_time = now,
              !.sync_next = U32Add(now, s.sync_interval),
              !.status = E_TIME_OK]

\* void time_set(time_t now); t is the value of tick_get().
time_set(s, now, t) ==
    [s EXCEPT !.sys_time = now,
              !.sync_next = U32Add(now, s.sync_interval),
              !.status = E_TIME_OK,
              !.last_update = t]

\* Whether the sync check of time_get invokes the provider callback.
ProviderDue(s) == U32Leq(s.sync_next, s.sys_time) /\ s.cb # 0

\* Variants of SyncFailed with a slip in them: the status is left as it was;
\* sync_next is left as it was; the interval is subtracted instead of added;
\* E_TIME_NOT_SET is promoted to E_TIME_NEEDS_SYNC; the status is reset to
\* E_TIME_NOT_SET.
SyncFailed_KeepStatus(s) ==
    [s EXCEPT !.sync_next = U32Add(s.sys_time, s.sync_interval)]
SyncFailed_NoRearm(s) ==
    [s EXCEPT !.status = IF s.status = E_TIME_NOT_SET
                         THEN E_TIME_NOT_SET ELSE E_TIME_NEEDS_SYNC]
SyncFailed_Minus(s) ==
    [s EXCEPT !.sync_next = U32Sub(s.sys_time, s.sync_interval),
              !.status = IF s.status = E_TIME_NOT_SET
                         THEN E_TIME_NOT_SET ELSE E_TIME_NEEDS_SYNC]
SyncFailed_Promote(s) ==
    [s EXCEPT !.sync_next = U32Add(s.sys_time, s.sync_interval),
              !.status = E_TIME_NEEDS_SYNC]

SyncFailed_Reset(s) ==
    [s EXCEPT !.sync_next = U32Add(s.sys_time, s.sync_interval),
              !.status = E_TIME_NOT_SET]

\* The branch of time_get taken when the provider returned 0.
SyncFailed(s) ==
    [s EXCEPT !.sync_next = U32Add(s.sys_time, s.sync_interval),
              !.status = IF s.status = E_TIME_NOT_SET
                         THEN E_TIME_NOT_SET ELSE E_TIME_NEEDS_SYNC]

\* A variant of SyncCheck with a slip in it: the callback is not tested
\* against the null pointer.
SyncCheck_NoNullCheck(s, now, t) ==
    IF U32Leq(s.sync_next, s.sys_time)
    THEN IF now # U32(0) THEN time_set(s, now, t) ELSE SyncFailed(s)
    ELSE s

\* A variant of SyncCheck with a slip in it: the value the provider returns
\* is not tested against 0.
SyncCheck_NoZeroTest(s, now, t) ==
    IF U32Leq(s.sync_next, s.sys_time)
    THEN IF s.cb # 0 THEN time_set(s, now, t) ELSE s
    ELSE s

\* The sync check of time_get; now is what the callback returns if invoked.
SyncCheck(s, now, t) ==
    IF U32Leq(s.sync_next, s.sys_time)
    THEN IF s.cb # 0
         THEN IF now # U32(0) THEN time_set(s, now, t) ELSE SyncFailed(s)
         ELSE s
    ELSE s

\* A variant of TickElapsed with a slip in it: the subtraction does not wrap.
TickElapsed_NoWrap(t, lu) == IF U32Lt(t, lu) THEN U32(0) ELSE U32Sub(t, lu)

\* tick_get() - last_update, an unsigned subtraction.
TickElapsed(t, lu) == U32Sub(t, lu)

\* A variant of TickLoop with a slip in it: last_update is set to the current
\* tick, which drops the ticks of the second under way.
TickLoop_Drift(s, t) ==
    IF U32Leq(U32(TICK_SECOND), TickElapsed(t, s.last_update))
    THEN LET n == U32Div(TickElapsed(t, s.last_update), TICK_SECOND) IN
         [s EXCEPT !.sys_time = U32Add(@, U32(n)), !.last_update = t]
    ELSE s

\* A variant of TickCond with a slip in it: the comparison is strict.
TickCond_Strict(s, t) == U32Lt(U32(TICK_SECOND), TickElapsed(t, s.last_update))

\* The accumulation loop of time_get.  v holds the module state s and the
\* number n of iterations made; TickCond is the condition of the loop,
\* TickBody one iteration, TickChunk at most m iterations, and TickRun runs
\* the loop to its end, sixteen iterations at a time (which bounds the depth
\* of the recursion).
TickCond(s, t) == U32Leq(U32(TICK_SECOND), TickElapsed(t, s.last_update))
TickBody(v) ==
    [s |-> [v.s EXCEPT !.sys_time = U32Add(@, U32(1)),
                       !.last_update = U32Add(@, U32(TICK_SECOND))],
     n |-> v.n + 1]
RECURSIVE TickChunk(_, _, _)
TickChunk(v, t, m) ==
    IF m > 0 /\ TickCond(v.s, t) THEN TickChunk(TickBody(v), t, m - 1) ELSE v
RECURSIVE TickRun(_, _)
TickRun(v, t) ==
    IF TickCond(v.s, t) THEN TickRun(TickChunk(v, t, 16), t) ELSE v

TickLoop(s, t) == TickRun([s |-> s, n |-> 0], t).s

\* Number of times the body of the accumulation loop runs.
LoopCount(lu, t) ==
    TickRun([s |-> [sys_time |-> U32(0), last_update |-> lu], n |-> 0], t).n

\* A variant of time_get with a slip in it: the sync check is made again
\* after the accumulation loop.
time_get_CheckAgain(s, now, t) ==
    SyncCheck(TickLoop(SyncCheck(s, now, t), t), now, t)

\* time_t time_get(); the value returned is the sys_time of the result.
time_get(s, now, t) == TickLoop(SyncCheck(s, now, t), t)

\* A variant of Register with a slip in it: sync_next is left as it was, so
\* that no sync is forced.
Register_NoForce(s, callback, timespan) ==
    [s EXCEPT !.cb = callback,
              !.sync_interval = IF timespan = U32(0)
                                THEN U32(TIME_SECS_PER_DAY) ELSE timespan]

\* The assignments of time_set_provider for a callback that is not null.
Register(s, callback, timespan) ==
    [s EXCEPT !.cb = callback,
              !.sync_interval = IF timespan = U32(0)
                                THEN U32(TIME_SECS_PER_DAY) ELSE timespan,
              !.sync_next = s.sys_time]

\* A variant of time_set_provider with a slip in it: the callback is not
\* tested against the null pointer.
time_set_provider_NoNullCheck(s, callback, timespan, now, t) ==
    time_get(Register(s, callback, timespan), now, t)

\* void time_set_provider(time_callback_t callback, time_t timespan)
time_set_provider(s, callback, timespan, now, t) ==
    IF callback = 0
    THEN s
    ELSE time_get(Register(s, callback, timespan), now, t)

(***************************************************************************)
(* Calendar arithmetic.  A struct tm_t is a record of its fields.          *)
(***************************************************************************)
\* const unsigned char month_length[]; the C index i is the index i + 1 here.
month_length == <<31, 28, 31, 30, 31, 30, 31, 31, 30, 31, 30, 31>>

\* The first loop of time_make: a day for every leap year before tm_year.
\* v holds the variables of the loop, i and tstamp; MakeLeapBody is one
\* iteration, MakeLeapChunk is at most n iterations, and MakeLeapLoop runs the
\* loop to its end, sixteen iterations at a time (which bounds the depth of
\* the recursion).
MakeLeapBody(v) ==
    [i |-> v.i + 1,
     tstamp |-> IF time_is_leap(v.i + 1970)
                THEN U32Add(v.tstamp, U32(TIME_SECS_PER_DAY))
                ELSE v.tstamp]
RECURSIVE MakeLeapChunk(_, _, _)
MakeLeapChunk(v, tm_year, n) ==
    IF n > 0 /\ v.i < tm_year
    THEN MakeLeapChunk(MakeLeapBody(v), tm_year, n - 1)
    ELSE v
RECURSIVE MakeLeapLoop(_, _)
MakeLeapLoop(v, tm_year) ==
    IF v.i < tm_year
    THEN MakeLeapLoop(MakeLeapChunk(v, tm_year, 16), tm_year)
    ELSE v.tstamp

\* A variant of MakeMonthLoop with a slip in it: February is taken to be the
\* month of index 1, as it is in time_break.
RECURSIVE MakeMonthLoop_ZeroBased(_, _, _)
MakeMonthLoop_ZeroBased(i, timeinfo, tstamp) ==
    IF i < timeinfo.tm_mon
    THEN MakeMonthLoop_ZeroBased(i + 1, timeinfo,
             IF i = 1 /\ time_is_leap(timeinfo.tm_year + 1970)
             THEN U32Add(tstamp, U32(TIME_SECS_PER_DAY * 29))
             ELSE U32Add(tstamp, U32(TIME_SECS_PER_DAY * month_length[(i - 1) + 1])))
    ELSE tstamp

\* The second loop of time_make: the days of the months before tm_mon.
RECURSIVE MakeMonthLoop(_, _, _)
MakeMonthLoop(i, timeinfo, tstamp) ==
    IF i < timeinfo.tm_mon
    THEN MakeMonthLoop(i + 1, timeinfo,
             IF i = 2 /\ time_is_leap(timeinfo.tm_year + 1970)
             THEN U32Add(tstamp, U32(TIME_SECS_PER_DAY * 29))
             ELSE U32Add(tstamp, U32(TIME_SECS_PER_DAY * month_length[(i - 1) + 1])))
    ELSE tstamp

\* time_t time_make(struct tm_t * timeinfo)
time_make(timeinfo) ==
    LET t0 == U32Mul(U32(TIME_SECS_PER_DAY * 365), timeinfo.tm_year)
        t1 == MakeLeapLoop([i |-> 0, tstamp |-> t0], timeinfo.tm_year)
        t2 == MakeMonthLoop(1, timeinfo, t1)
        t3 == U32Add(t2, U32((timeinfo.tm_mday - 1) * TIME_SECS_PER_DAY))
        t4 == U32Add(t3, U32(timeinfo.tm_hour * TIME_SECS_PER_HOUR))
        t5 == U32Add(t4, U32(timeinfo.tm_min * TIME_SECS_PER_MINUTE))
    IN U32Add(t5, U32(timeinfo.tm_sec))

\* The year loop of time_break: v holds its variables, year (a uint8_t) and
\* days, and days has been increased for the test of the loop.  The result
\* is the year and the days counted up to the end of that year.
\* BreakYearBody is one iteration (year++, and the addition of the next
\* test), BreakYearChunk is at most n iterations, and BreakYearLoop runs the
\* loop to its end, sixteen iterations at a time.
YearLength(year) == IF time_is_leap(1970 + year) THEN 366 ELSE 365
\* A variant of BreakYearBody with a slip in it: the length added for the next
\* test is that of the year just passed.
BreakYearBody_Stale(v) ==
    [year |-> (v.year + 1) % 256,
     days |-> v.days + YearLength(v.year)]
BreakYearBody(v) ==
    [year |-> (v.year + 1) % 256,
     days |-> v.days + YearLength((v.year + 1) % 256)]
RECURSIVE BreakYearChunk(_, _, _)
BreakYearChunk(v, xTime, n) ==
    IF n > 0 /\ v.days <= xTime
    THEN BreakYearChunk(BreakYearBody(v), xTime, n - 1)
    ELSE v
RECURSIVE BreakYearLoop(_, _)
BreakYearLoop(v, xTime) ==
    IF v.days <= xTime
    THEN BreakYearLoop(BreakYearChunk(v, xTime, 16), xTime)
    ELSE v

\* The month loop of time_break: the result is the month index at which the
\* loop ends and the days left.
\* A variant of BreakMonthLoop with a slip in it: February has 28 days in
\* every year.
RECURSIVE BreakMonthLoop_NoLeap(_, _, _)
BreakMonthLoop_NoLeap(month, xTime, year) ==
    IF month < 12
    THEN IF xTime >= month_length[month + 1]
         THEN BreakMonthLoop_NoLeap(month + 1, xTime - month_length[month + 1], year)
         ELSE <<month, xTime>>
    ELSE <<month, xTime>>

RECURSIVE BreakMonthLoop(_, _, _)
BreakMonthLoop(month, xTime, year) ==
    IF month < 12
    THEN LET monthLength == IF month = 1
                            THEN (IF time_is_leap(1970 + year) THEN 29 ELSE 28)
                            ELSE month_length[month + 1]
         IN IF xTime >= monthLength
            THEN BreakMonthLoop(month + 1, xTime - monthLength, year)
            ELSE <<month, xTime>>
    ELSE <<month, xTime>>

\* void time_break(time_t timeinput, struct tm_t * timeinfo)
time_break(timeinput) ==
    LET minutes == U32Div(timeinput, 60)
        hours   == minutes \div 60
        xDays   == hours \div 24
        yl      == BreakYearLoop([year |-> 0, days |-> 0 + YearLength(0)], xDays)
        year    == yl.year
        days    == yl.days - YearLength(year)
        ml      == BreakMonthLoop(0, xDays - days, year)
    IN [tm_sec  |-> U32Rem(timeinput, 60),
        tm_min  |-> minutes % 60,
        tm_hour |-> hours % 24,
        tm_wday |-> ((xDays + 4) % 7) + 1,
        tm_mday |-> ml[2] + 1,
        tm_mon  |-> ml[1] + 1,
        tm_year |-> year]

(***************************************************************************)
(* Observation: unwrapped tick counts.  A count is [w, u]: w * 2^32 + u.   *)
(***************************************************************************)
WideAdd(x, d) == [w |-> x.w + U32Carry(x.u, d), u |-> U32Add(x.u, d)]
WideSub(x, n) == [w |-> x.w - (IF U32Lt(x.u, U32(n)) THEN 1 ELSE 0),
                  u |-> U32Sub(x.u, U32(n))]
WideZero == [w |-> 0, u |-> U32(0)]

(***************************************************************************)
(* Initial state: the initialisers of the file-scope variables.            *)
(***************************************************************************)
\* hist.att is the value of sys_time that the most recent invocation of the
\* provider established (sys_time as it was if the provider returned 0, the
\* value the provider returned otherwise), <<>> if time_set was called since
\* or there was none; hist.attempts counts, up to 2, the invocations since the
\* last call of time_set or time_set_provider, the one time_set_provider makes
\* included.
\* hist.setVal is the argument of the most recent call of time_set (<<>> if
\* there was none), hist.syncSinceSet tells whether the provider has returned
\* a value other than 0 since that call, and run.sinceSet is the number of
\* ticks elapsed since that call while it is less than TICK_SECOND, -1 after
\* that and when there was no call.
\* obs describes the call that has just returned: the function called (op),
\* whether it invoked the provider and what the provider returned (ret; for
\* time_set, its argument), the status on entry, the value the previous
\* time_get returned (prevRet, <<>> when there is none or time_set was called
\* since), sys_time and sync_next after the sync check and before the
\* accumulation loop, the number of iterations of the loop, whether the tick
\* counter had passed through 0 since last_update, and the ticks elapsed
\* since the previous time_get (gap, <<>> as for prevRet).
NoObs(op) == [op |-> op, invoked |-> FALSE, ret |-> U32(0),
              preStatus |-> E_TIME_NOT_SET, prevRet |-> <<>>,
              midSys |-> U32(0), midNext |-> U32(0), iters |-> 0,
              wrapped |-> FALSE, gap |-> <<>>]

CalIdle == [phase |-> "idle", ts |-> U32(0), tm |-> <<>>, made |-> U32(0)]

InitClock ==
    /\ sys_time = U32(0)
    /\ sync_interval = U32(86400)
    /\ sync_next = U32(0)
    /\ last_update = U32(0)
    /\ enTimeCurrentStatus = E_TIME_NOT_SET
    /\ time_provider_callback = 0
    /\ tick = U32(0)
    /\ obs = NoObs("init")
    /\ hist = [lastSet |-> "none", failSince |-> FALSE, lastProv |-> "none",
               explSinceProv |-> FALSE, lastRet |-> <<>>, longGet |-> FALSE,
               ovf |-> FALSE, att |-> <<>>, attempts |-> 0, setVal |-> <<>>,
               syncSinceSet |-> FALSE]
    /\ run = [elapsed |-> WideZero, base |-> U32(0), ticks |-> WideZero,
              ok |-> TRUE, gap |-> <<>>, n |-> 0, sinceSet |-> -1]

Init == InitClock /\ cal = CalIdle

\* The assignments a call leaves in the file-scope variables.
Install(s) ==
    /\ sys_time' = s.sys_time
    /\ sync_interval' = s.sync_interval
    /\ sync_next' = s.sync_next
    /\ last_update' = s.last_update
    /\ enTimeCurrentStatus' = s.status
    /\ time_provider_callback' = s.cb

(***************************************************************************)
(* The platform tick counter advances by d ticks between two calls.        *)
(***************************************************************************)
Tick(d) ==
    /\ run.n < MaxTickEvents
    /\ tick' = U32Add(tick, d)
    /\ run' = [run EXCEPT !.elapsed = WideAdd(@, d), !.ticks = WideAdd(@, d),
                          !.gap = IF @ = <<>> THEN @ ELSE WideAdd(@, d),
                          !.n = @ + 1,
                          !.sinceSet = IF @ >= 0 /\ d[1] = 0 /\ @ + d[2] < TICK_SECOND
                                       THEN @ + d[2] ELSE -1]
    /\ obs' = NoObs("tick")
    /\ UNCHANGED <<sys_time, sync_interval, sync_next, last_update,
                   enTimeCurrentStatus, time_provider_callback, hist, cal>>

(***************************************************************************)
(* The application calls time_set(now).                                    *)
(***************************************************************************)
TimeSet(now) ==
    LET fin == time_set(Cur, now, tick) IN
    /\ Install(fin)
    /\ obs' = [NoObs("set") EXCEPT !.ret = now, !.preStatus = enTimeCurrentStatus,
                                   !.midSys = fin.sys_time,
                                   !.midNext = fin.sync_next]
    /\ hist' = [hist EXCEPT !.lastSet = IF now = U32(0) THEN "zero" ELSE "nonzero",
                            !.failSince = FALSE,
                            !.explSinceProv = TRUE,
                            !.lastRet = <<>>,
                            !.longGet = FALSE,
                            !.ovf = @ \/ U32Carry(now, sync_interval) > 0,
                            !.att = <<>>,
                            !.attempts = 0,
                            !.setVal = now,
                            !.syncSinceSet = FALSE]
    /\ run' = [run EXCEPT !.elapsed = WideZero, !.base = fin.sys_time,
                          !.ticks = WideZero, !.ok = TRUE, !.gap = <<>>,
                          !.sinceSet = 0]
    /\ UNCHANGED <<tick, cal>>

(***************************************************************************)
(* A run of time_get from module state s0 (op names the public function    *)
(* that runs it); now is the value the provider returns if it is invoked.  *)
(***************************************************************************)
RunGet(op, s0, now) ==
    LET invoked == ProviderDue(s0)
        ret     == IF invoked THEN now ELSE U32(0)
        mid     == SyncCheck(s0, now, tick)
        synced  == invoked /\ ret # U32(0)
        failed  == invoked /\ ret = U32(0)
        pending == IF synced THEN WideZero ELSE run.elapsed
    IN
    /\ U32Div(TickElapsed(tick, mid.last_update), TICK_SECOND) <= MaxIter
    /\ LET fin  == time_get(s0, now, tick)
           k    == LoopCount(mid.last_update, tick)
           left == WideSub(pending, k * TICK_SECOND)
       IN
       /\ Install(fin)
       /\ obs' = [op |-> op, invoked |-> invoked, ret |-> ret,
                  preStatus |-> s0.status, prevRet |-> hist.lastRet,
                  midSys |-> mid.sys_time, midNext |-> mid.sync_next, iters |-> k,
                  wrapped |-> U32Lt(tick, mid.last_update), gap |-> run.gap]
       /\ hist' = [hist EXCEPT
                      !.lastSet = IF synced THEN "nonzero" ELSE @,
                      !.failSince = IF synced THEN FALSE ELSE (@ \/ failed),
                      !.lastProv = IF synced THEN "nonzero"
                                   ELSE IF failed THEN "zero" ELSE @,
                      !.explSinceProv = IF invoked THEN FALSE ELSE @,
                      !.lastRet = fin.sys_time,
                      !.longGet = U32Lt(fin.sync_interval, U32(k)),
                      !.ovf = \/ @
                              \/ synced /\ U32Carry(ret, s0.sync_interval) > 0
                              \/ failed /\ U32Carry(s0.sys_time, s0.sync_interval) > 0
                              \/ U32Carry(mid.sys_time, U32(k)) > 0,
                      !.syncSinceSet = @ \/ synced,
                      !.att = IF invoked THEN mid.sys_time ELSE @,
                      !.attempts = IF op = "provider" THEN 1
                                   ELSE IF invoked /\ @ < 2 THEN @ + 1 ELSE @]
       /\ run' = IF invoked
                 THEN [run EXCEPT !.elapsed = left, !.base = fin.sys_time,
                                  !.ticks = left, !.ok = pending.w = 0,
                                  !.gap = WideZero]
                 ELSE [run EXCEPT !.elapsed = left, !.ok = @ /\ pending.w = 0,
                                  !.gap = WideZero]
    /\ UNCHANGED <<tick, cal>>

(***************************************************************************)
(* The application calls time_get(); the provider, if invoked, returns now.*)
(***************************************************************************)
TimeGet(now) == RunGet("get", Cur, now)

(***************************************************************************)
(* The application calls time_set_provider(callback, timespan); the        *)
(* provider, if invoked, returns now.                                      *)
(***************************************************************************)
TimeSetProvider(callback, timespan, now) ==
    IF callback = 0
    THEN /\ Install(time_set_provider(Cur, callback, timespan, now, tick))
         /\ obs' = NoObs("provider_null")
         /\ UNCHANGED <<tick, hist, run, cal>>
    ELSE RunGet("provider", Register(Cur, callback, timespan), now)

Next ==
    \/ \E d \in TickSteps : Tick(d)
    \/ \E now \in SetValues : TimeSet(now)
    \/ \E now \in ProviderValues : TimeGet(now)
    \/ \E callback \in Callbacks, timespan \in Timespans, now \in ProviderValues :
          TimeSetProvider(callback, timespan, now)

Spec == Init /\ [][Next]_vars

\* The same operations, on the inputs of the literal scenarios.
NextScenario ==
    \/ \E d \in ScenarioTickSteps : Tick(d)
    \/ \E now \in ScenarioSetValues : TimeSet(now)
    \/ \E now \in ScenarioProviderValues : TimeGet(now)
    \/ \E callback \in ScenarioCallbacks, timespan \in ScenarioTimespans,
          now \in ScenarioProviderValues :
          TimeSetProvider(callback, timespan, now)

SpecScenario == Init /\ [][NextScenario]_vars

(***************************************************************************)
(* The calendar routines, applied to a timestamp: time_break, then         *)
(* time_make on its result.  They read and write no module state.          *)
(***************************************************************************)
\* Timestamps given to time_break: for each of these years, the days around
\* the end of each month (the last day of the year included, day 365 of a
\* leap year), at these seconds of the day.  The last of them is 4102444799,
\* 2099-12-31 23:59:59.
CalYears == {1970, 1971, 1972, 2000, 2021, 2037, 2038, 2096, 2099}
CalDaysOfYear == {0, 1, 30, 31, 58, 59, 60, 61, 89, 90, 91, 119, 120, 121,
                  150, 151, 152, 180, 181, 182, 211, 212, 213, 242, 243, 244,
                  272, 273, 274, 303, 304, 305, 333, 334, 335, 363, 364, 365}
CalSeconds == {0, 59, 3600, 86399}
\* Number of days from 1970-01-01 to the first day of year y.
DaysBeforeYear(y) ==
    365 * (y - 1970) + ((y - 1) \div 4 - 1969 \div 4)
    - ((y - 1) \div 100 - 1969 \div 100) + ((y - 1) \div 400 - 1969 \div 400)
CalDates ==
    {<<y, d>> \in CalYears \X CalDaysOfYear : d < YearLength(y - 1970)}
CalInputs ==
    {U32Add(U32Mul(U32(TIME_SECS_PER_DAY), DaysBeforeYear(yd[1]) + yd[2]), U32(sec)) :
        yd \in CalDates, sec \in CalSeconds}

InitCalendar ==
    /\ InitClock
    /\ \E ts \in CalInputs :
          cal = [phase |-> "input", ts |-> ts, tm |-> <<>>, made |-> U32(0)]

TimeBreak ==
    /\ cal.phase = "input"
    /\ cal' = [cal EXCEPT !.phase = "broken", !.tm = time_break(cal.ts)]
    /\ UNCHANGED clockVars

TimeMake ==
    /\ cal.phase = "broken"
    /\ cal' = [cal EXCEPT !.phase = "made", !.made = time_make(cal.tm)]
    /\ UNCHANGED clockVars

NextCalendar == TimeBreak \/ TimeMake

SpecCalendar == InitCalendar /\ [][NextCalendar]_vars

(***************************************************************************)
(* Properties.  A state in which obs.op is "get" or "provider" is the      *)
(* state in which a run of time_get has just returned: sys_time is the     *)
(* value it returned.                                                      *)
(***************************************************************************)
GetOps == {"get", "provider"}
\* The run of time_get that has just returned synchronised with the provider.
Synced == obs.invoked /\ obs.ret # U32(0)
\* The run of time_get that has just returned got 0 from the provider.
SyncFailure == obs.invoked /\ obs.ret = U32(0)
\* The tick count between last_update and the tick on entry to the
\* accumulation loop of the run of time_get that has just returned.
Pending == WideAdd(run.elapsed, U32(obs.iters * TICK_SECOND))

\* C1 as stated: with no explicit time_set since the previous time_get, the
\* value a call of time_get returns is at least the value the previous
\* time_get returned, whatever the provider returned (as long as no addition
\* on timestamps has overflowed 32 bits).
C1_Original ==
    (obs.op = "get" /\ obs.prevRet # <<>> /\ ~hist.ovf)
    => U32Leq(obs.prevRet, sys_time)

\* C1 as amended: with no time_set since the previous run of time_get (a call
\* of time_get or the one time_set_provider makes), neither an explicit one nor
\* the one a successful sync performs in this very run, and unless sys_time
\* overflows 32 bits in this run, the value time_get returns is at least the
\* value the previous run of time_get returned.
C1_Monotone ==
    (/\ obs.op \in GetOps
     /\ obs.prevRet # <<>>
     /\ ~Synced
     /\ U32Carry(obs.midSys, U32(obs.iters)) = 0)
    => U32Leq(obs.prevRet, sys_time)

\* A time_get whose sync failed and which still returned more than the
\* previous time_get.
C1_Witness ==
    /\ obs.op = "get"
    /\ obs.prevRet # <<>>
    /\ SyncFailure
    /\ U32Lt(obs.prevRet, sys_time)

\* C2 as stated: the status is E_TIME_OK iff the most recent set was called
\* with a nonzero argument and the provider has not returned 0 since.
C2_Original ==
    (enTimeCurrentStatus = E_TIME_OK)
    <=> (hist.lastSet = "nonzero" /\ ~hist.failSince)

\* C2 as amended: the status is E_TIME_OK iff a set has occurred (an explicit
\* time_set with any argument, 0 included, or the set of a successful sync)
\* and the provider has not returned 0 since the most recent set.
C2_StatusLaw ==
    (enTimeCurrentStatus = E_TIME_OK)
    <=> (hist.lastSet # "none" /\ ~hist.failSince)

\* The status is E_TIME_OK after time_set(0).
C2_Witness ==
    /\ enTimeCurrentStatus = E_TIME_OK
    /\ hist.lastSet = "zero"
    /\ obs.op = "set"

\* C3 as stated: when the status is E_TIME_OK, a set has occurred and the most
\* recent value the provider returned was not 0.
C3_Original ==
    (enTimeCurrentStatus = E_TIME_OK)
    => (hist.lastSet # "none" /\ hist.lastProv # "zero")

\* C3 as amended: when the status is E_TIME_OK, a set has occurred, and the
\* most recent value the provider returned was not 0 unless an explicit
\* time_set was made after that return.
C3_OkImplies ==
    (enTimeCurrentStatus = E_TIME_OK)
    => (hist.lastSet # "none" /\ (hist.lastProv = "zero" => hist.explSinceProv))

\* The status is E_TIME_OK although the provider last returned 0: time_set
\* was called after that.
C3_Witness ==
    /\ enTimeCurrentStatus = E_TIME_OK
    /\ hist.lastProv = "zero"
    /\ hist.explSinceProv

\* C4 as stated: when a call that attempted a sync returns,
\* sync_next - sys_time = sync_interval.
C4_Original ==
    obs.invoked => U32Sub(sync_next, sys_time) = sync_interval

\* C4 as amended: right after the sync check of a call that attempted a sync,
\* sync_next - sys_time = sync_interval; when the call returns,
\* sync_next - sys_time = sync_interval - k (modulo 2^32), where k is the
\* number of seconds the accumulation loop of that call added.
C4_Rearm ==
    obs.invoked =>
        /\ U32Sub(obs.midNext, obs.midSys) = sync_interval
        /\ U32Sub(sync_next, sys_time) = U32Sub(sync_interval, U32(obs.iters))

\* A failed sync in a call that then accumulated at least one second.
C4_Witness ==
    /\ SyncFailure
    /\ obs.iters > 0
    /\ U32Sub(sync_next, sys_time) # sync_interval

\* sync_next >= sys_time - sync_interval, in the integers.
NotOverdueByMore ==
    \/ U32Carry(sync_next, sync_interval) > 0
    \/ U32Leq(sys_time, U32Add(sync_next, sync_interval))

\* C5 as stated: whenever a provider is registered,
\* sync_next >= sys_time - sync_interval (as long as no addition on timestamps
\* has overflowed 32 bits, which the claim leaves to the caller).
C5_Original ==
    (time_provider_callback # 0 /\ ~hist.ovf) => NotOverdueByMore

\* C5 as amended: whenever a provider is registered,
\* sync_next >= sys_time - sync_interval, provided the most recent time_get
\* accumulated at most sync_interval seconds (or time_set was called after it)
\* and no addition on timestamps has overflowed 32 bits.
C5_Bounded ==
    (time_provider_callback # 0 /\ ~hist.longGet /\ ~hist.ovf) => NotOverdueByMore

\* A provider is registered, the sync is overdue, and time_get accumulated
\* no more than sync_interval seconds.
C5_Witness ==
    /\ time_provider_callback # 0
    /\ obs.op = "get"
    /\ obs.iters > 0
    /\ ~hist.longGet
    /\ ~hist.ovf
    /\ U32Lt(sync_next, sys_time)

\* C6: when the provider, invoked because a sync is due, returns 0, the
\* status becomes E_TIME_NEEDS_SYNC if it was E_TIME_OK, stays E_TIME_NEEDS_SYNC
\* or E_TIME_NOT_SET if it was that, and sync_next is set to the sys_time of
\* that moment plus sync_interval; after time_set(1000) with an interval of 100,
\* a time_get at sys_time 1100 leaves sys_time 1100, E_TIME_NEEDS_SYNC and
\* sync_next 1200.
C6_ProviderFailure ==
    SyncFailure =>
        /\ enTimeCurrentStatus = (IF obs.preStatus = E_TIME_NOT_SET
                                  THEN E_TIME_NOT_SET ELSE E_TIME_NEEDS_SYNC)
        /\ obs.midNext = U32Add(obs.midSys, sync_interval)
        /\ sync_next = obs.midNext
        /\ (/\ obs.op = "get"
            /\ obs.midSys = U32(1100)
            /\ obs.iters = 0
            /\ obs.preStatus = E_TIME_OK
            /\ sync_interval = U32(100))
           => (/\ sys_time = U32(1100)
               /\ enTimeCurrentStatus = E_TIME_NEEDS_SYNC
               /\ sync_next = U32(1200))

\* The scenario of C6: time_set(1000), an interval of 100, one hundred seconds
\* of ticks, and a time_get whose provider returns 0.
C6_Witness ==
    /\ obs.op = "get"
    /\ SyncFailure
    /\ obs.preStatus = E_TIME_OK
    /\ hist.lastSet = "nonzero"
    /\ sync_interval = U32(100)
    /\ sys_time = U32(1100)
    /\ enTimeCurrentStatus = E_TIME_NEEDS_SYNC
    /\ sync_next = U32(1200)

\* C7: a time_get whose provider returns 0 leaves sys_time unchanged by the
\* sync check, leaves sync_interval and the callback unchanged, and leaves
\* sys_time and last_update as a time_get with no provider registered would:
\* it returns the previous sys_time plus the whole seconds of the ticks
\* elapsed since last_update.
C7_FailureFrame ==
    [][(obs'.op = "get" /\ obs'.invoked /\ obs'.ret = U32(0)) =>
         LET alt == time_get([Cur EXCEPT !.cb = 0], U32(0), tick) IN
         /\ obs'.midSys = sys_time
         /\ sys_time' = alt.sys_time
         /\ last_update' = alt.last_update
         /\ sync_interval' = sync_interval
         /\ time_provider_callback' = time_provider_callback
         /\ sys_time' = U32Add(sys_time,
                               U32(U32Div(TickElapsed(tick, last_update), TICK_SECOND)))
      ]_vars

\* A time_get whose provider returned 0 and which accumulated two seconds or
\* more.
C7_Witness ==
    /\ obs.op = "get"
    /\ SyncFailure
    /\ obs.iters >= 2

\* C8: over a sequence of time_get calls with no sync and no time_set in which
\* fewer than 2^32 ticks separate last_update from the tick at each call,
\* sys_time advances by the whole seconds of (ticks elapsed + ticks held at the
\* start), however the calls are spaced; and when the tick counter advanced by
\* exactly N * TICK_SECOND since the previous time_get, this one adds exactly N.
C8_DriftFree ==
    (obs.op = "get" /\ ~obs.invoked /\ run.ok) =>
        /\ run.ticks.w = 0
        /\ sys_time = U32Add(run.base, U32(U32Div(run.ticks.u, TICK_SECOND)))
        /\ TickElapsed(tick, last_update) = U32(U32Rem(run.ticks.u, TICK_SECOND))
        /\ (obs.gap # <<>> /\ obs.gap.w = 0 /\ U32Rem(obs.gap.u, TICK_SECOND) = 0)
           => obs.iters = U32Div(obs.gap.u, TICK_SECOND)

\* A time_get made exactly one second of ticks after the previous one, with
\* part of a second held over, added exactly one second.
C8_Witness ==
    /\ obs.op = "get"
    /\ ~obs.invoked
    /\ run.ok
    /\ obs.gap = [w |-> 0, u |-> U32(TICK_SECOND)]
    /\ obs.iters = 1
    /\ TickElapsed(tick, last_update) # U32(0)

\* C9: when the tick counter has passed through 0 since last_update and fewer
\* than 2^32 ticks have elapsed since last_update, the accumulation loop adds
\* the seconds and leaves the remainder that it adds and leaves for the same
\* number of elapsed ticks counted from a last_update of 0, without a wrap.
C9_WrapTransparent ==
    (obs.op \in GetOps /\ obs.wrapped /\ Pending.w = 0) =>
        LET ref == TickLoop([Cur EXCEPT !.sys_time = obs.midSys,
                                        !.last_update = U32(0)], Pending.u)
        IN
        /\ obs.iters = U32Div(Pending.u, TICK_SECOND)
        /\ sys_time = ref.sys_time
        /\ TickElapsed(tick, last_update) = TickElapsed(Pending.u, ref.last_update)

\* The tick counter wrapped between last_update and a time_get that added two
\* seconds.
C9_Witness ==
    /\ obs.op = "get"
    /\ obs.wrapped
    /\ Pending.w = 0
    /\ obs.iters = 2

\* C10: time_make of the result of time_break(ts) is ts, for the timestamps
\* from 0 to 4102444799.
C10_RoundTrip ==
    cal.phase = "made" => cal.made = cal.ts

\* The round trip of 2099-12-31 23:59:59, the last timestamp of the range,
\* 4102444799 = 62598 * 65536 + 22271.
C10_Witness ==
    /\ cal.phase = "made"
    /\ cal.ts = <<62598, 22271>>
    /\ cal.tm.tm_year = 129
    /\ cal.tm.tm_mon = 12
    /\ cal.tm.tm_mday = 31
    /\ cal.made = cal.ts

\* time_break has returned for the timestamp in cal.ts.
Broken == cal.phase \in {"broken", "made"}

\* C11 as stated: time_break(68256000) yields day 29, month 2, year offset 2,
\* and time_make of that result returns 68256000.
C11_Original ==
    (cal.phase = "made" /\ cal.ts = U32(68256000)) =>
        /\ cal.tm.tm_mday = 29 /\ cal.tm.tm_mon = 2 /\ cal.tm.tm_year = 2
        /\ cal.made = U32(68256000)

\* C11 as amended: time_break(68256000) yields day 1, month 3, year offset 2
\* (1972-03-01, the day after the leap day), and time_make of that result
\* returns 68256000; the leap day 1972-02-29 is the timestamp 68169600, for
\* which time_break yields day 29, month 2, year offset 2, and time_make of
\* that result returns 68169600.
C11_LeapDay ==
    cal.phase = "made" =>
        /\ cal.ts = U32(68256000) =>
               /\ cal.tm.tm_mday = 1 /\ cal.tm.tm_mon = 3 /\ cal.tm.tm_year = 2
               /\ cal.made = U32(68256000)
        /\ cal.ts = U32(68169600) =>
               /\ cal.tm.tm_mday = 29 /\ cal.tm.tm_mon = 2 /\ cal.tm.tm_year = 2
               /\ cal.made = U32(68169600)

\* The round trip of the leap day of 1972.
C11_Witness ==
    /\ cal.phase = "made"
    /\ cal.ts = U32(68169600)
    /\ cal.tm.tm_mday = 29
    /\ cal.tm.tm_mon = 2
    /\ cal.made = U32(68169600)

\* The proleptic Gregorian date of day number n counted from 1970-01-01,
\* computed without a loop from the 400 year cycle of 146097 days that
\* starts on a first of March.
CivilFromDays(n) ==
    LET z   == n + 719468
        era == z \div 146097
        doe == z % 146097
        yoe == (doe - doe \div 1460 + doe \div 36524 - doe \div 146096) \div 365
        doy == doe - (365 * yoe + yoe \div 4 - yoe \div 100)
        mp  == (5 * doy + 2) \div 153
        m   == IF mp < 10 THEN mp + 3 ELSE mp - 9
    IN [year |-> yoe + era * 400 + (IF m <= 2 THEN 1 ELSE 0),
        mon  |-> m,
        mday |-> doy - (153 * mp + 2) \div 5 + 1]
\* Length of month m (1 to 12) of year y in the Gregorian calendar.
DaysInMonth(y, m) ==
    IF m = 2
    THEN (IF (y % 4 = 0 /\ y % 100 # 0) \/ y % 400 = 0 THEN 29 ELSE 28)
    ELSE IF m \in {4, 6, 9, 11} THEN 30 ELSE 31

\* C12: for the timestamps from 0 to 4102444799, time_break(ts) yields
\* second = ts mod 60, minute and hour of the day in their ranges,
\* weekday = ((ts div 86400 + 4) mod 7) + 1 in 1..7, and the year offset, the
\* month in 1..12 and the day in 1..length of the month of the Gregorian date
\* of day ts div 86400; break(0) is 1970-01-01 00:00:00, weekday 5, and
\* break(1614556800) is day 1, month 3, year offset 51, weekday 2.
C12_BreakFields ==
    Broken =>
        LET tm      == cal.tm
            minutes == U32Div(cal.ts, 60)
            dayno   == minutes \div 1440
            civ     == CivilFromDays(dayno)
        IN
        /\ tm.tm_sec = U32Rem(cal.ts, 60) /\ tm.tm_sec \in 0..59
        /\ tm.tm_min = minutes % 60 /\ tm.tm_min \in 0..59
        /\ tm.tm_hour = (minutes % 1440) \div 60 /\ tm.tm_hour \in 0..23
        /\ tm.tm_wday = ((dayno + 4) % 7) + 1 /\ tm.tm_wday \in 1..7
        /\ tm.tm_year = civ.year - 1970
        /\ tm.tm_mon = civ.mon /\ tm.tm_mon \in 1..12
        /\ tm.tm_mday = civ.mday
        /\ tm.tm_mday \in 1..DaysInMonth(civ.year, civ.mon)
        /\ cal.ts = U32(0) =>
               tm = [tm_sec |-> 0, tm_min |-> 0, tm_hour |-> 0, tm_wday |-> 5,
                     tm_mday |-> 1, tm_mon |-> 1, tm_year |-> 0]
        /\ cal.ts = U32(1614556800) =>
               /\ tm.tm_mday = 1 /\ tm.tm_mon = 3
               /\ tm.tm_year = 51 /\ tm.tm_wday = 2

\* time_break of 2021-03-01 00:00:00, a Monday.
C12_Witness ==
    /\ cal.phase = "broken"
    /\ cal.ts = U32(1614556800)
    /\ cal.tm.tm_mon = 3
    /\ cal.tm.tm_wday = 2

\* C13: a call time_set_provider(callback, timespan) with a callback that is
\* not null leaves callback registered and sync_interval equal to 86400 if
\* timespan is 0 and to timespan otherwise, and has invoked the callback (once:
\* a run of time_get invokes it at most once); if the callback returned a
\* value v that is not 0, the time_get of the call returned v, sys_time is v
\* and the status is E_TIME_OK; so it is with a callback that returns
\* 1700000000 and a timespan of 0.
C13_Registration ==
    [][\A callback \in ScenarioCallbacks, timespan \in ScenarioTimespans,
          now \in ScenarioProviderValues :
          (callback # 0 /\ TimeSetProvider(callback, timespan, now)) =>
              /\ time_provider_callback' = callback
              /\ sync_interval' = (IF timespan = U32(0) THEN U32(86400) ELSE timespan)
              /\ obs'.op = "provider"
              /\ obs'.invoked
              /\ obs'.ret = now
              /\ now # U32(0) =>
                     /\ hist'.lastRet = now
                     /\ sys_time' = now
                     /\ enTimeCurrentStatus' = E_TIME_OK
     ]_vars

\* time_set_provider(cb, 0) with a callback that returns 1700000000, called
\* when sys_time had advanced beyond 0 and sync_next lay ahead of it.
C13_Witness ==
    /\ obs.op = "provider"
    /\ obs.invoked
    /\ obs.ret = U32(1700000000)
    /\ sys_time = U32(1700000000)
    /\ enTimeCurrentStatus = E_TIME_OK
    /\ sync_interval = U32(86400)
    /\ obs.preStatus = E_TIME_NEEDS_SYNC

\* C14: time_set_provider with a null callback changes none of the file-scope
\* variables (the callback registered before stays registered) and invokes
\* no provider.
C14_NullIgnored ==
    [][obs'.op = "provider_null" =>
          /\ UNCHANGED <<sys_time, sync_interval, sync_next, last_update,
                         enTimeCurrentStatus, time_provider_callback>>
          /\ ~obs'.invoked
     ]_vars

\* time_set_provider(0, timespan) has returned with a callback registered, a
\* sync due and ticks pending.
C14_Witness ==
    /\ obs.op = "provider_null"
    /\ time_provider_callback # 0
    /\ U32Leq(sync_next, sys_time)
    /\ U32Leq(U32(TICK_SECOND), TickElapsed(tick, last_update))

\* C15 as stated: between two consecutive invocations of the provider with no
\* time_set and no time_set_provider between them, sys_time at the later
\* invocation is at least the value established at the earlier attempt
\* (sys_time at a failure, the value of the provider at a success) plus
\* sync_interval.
C15_Original ==
    [][(obs'.op = "get" /\ obs'.invoked /\ hist.att # <<>>)
       => (/\ U32Carry(hist.att, sync_interval) = 0
           /\ U32Leq(U32Add(hist.att, sync_interval), sys_time))
     ]_vars

\* C15 as amended: the same, provided the value established at the earlier
\* attempt plus sync_interval does not overflow 32 bits.
C15_NoEarlyRetry ==
    [][(/\ obs'.op = "get"
        /\ obs'.invoked
        /\ hist.att # <<>>
        /\ U32Carry(hist.att, sync_interval) = 0)
       => U32Leq(U32Add(hist.att, sync_interval), sys_time)
     ]_vars

\* A second invocation of the provider, in a time_get made after a failed
\* attempt and with the clock at least sync_interval further.
C15_Witness ==
    /\ obs.op = "get"
    /\ obs.invoked
    /\ hist.attempts = 2
    /\ ~hist.ovf
    /\ U32Leq(sync_interval, obs.midSys)

\* C16: while no provider is registered, time_get changes neither the status
\* nor sync_next, also when sync_next <= sys_time, and invokes nothing; it adds
\* to sys_time the whole seconds of the ticks elapsed since last_update and
\* leaves the rest of them pending.
C16_NoProvider ==
    [][(obs'.op = "get" /\ time_provider_callback = 0) =>
          /\ UNCHANGED <<enTimeCurrentStatus, sync_next, sync_interval,
                         time_provider_callback>>
          /\ ~obs'.invoked
          /\ sys_time' = U32Add(sys_time,
                                U32(U32Div(TickElapsed(tick, last_update), TICK_SECOND)))
          /\ TickElapsed(tick, last_update')
                = U32(U32Rem(TickElapsed(tick, last_update), TICK_SECOND))
     ]_vars

\* A time_get with no provider registered, made when the sync was due after
\* a time_set, and which added two seconds.
C16_Witness ==
    /\ obs.op = "get"
    /\ time_provider_callback = 0
    /\ U32Leq(obs.midNext, obs.midSys)
    /\ obs.preStatus = E_TIME_OK
    /\ obs.iters = 2

\* C17 as stated, for the first time_get after the call: the time_get that
\* follows time_set(now) with no other call between them, made before the
\* tick counter has advanced by TICK_SECOND, returns now.
C17_Original ==
    (obs.op = "get" /\ obs.prevRet = <<>> /\ run.sinceSet >= 0)
    => sys_time = hist.setVal

\* C17 as amended: when time_set(now) returns, sys_time = now, last_update is
\* the current tick (no tick is left pending), sync_next = now + sync_interval
\* modulo 2^32 and the status is E_TIME_OK; and every run of time_get made
\* before the tick counter has advanced by TICK_SECOND since the call returns
\* now, unless the provider has returned a value other than 0 since the call.
C17_SetPost ==
    /\ obs.op = "set" =>
           /\ sys_time = obs.ret
           /\ hist.setVal = obs.ret
           /\ last_update = tick
           /\ TickElapsed(tick, last_update) = U32(0)
           /\ sync_next = U32Add(obs.ret, sync_interval)
           /\ enTimeCurrentStatus = E_TIME_OK
    /\ (obs.op \in GetOps /\ run.sinceSet >= 0 /\ ~hist.syncSinceSet)
       => sys_time = hist.setVal

\* A time_get made 800 ticks after time_set(1000), and after ticks that had
\* been pending were discarded by the set, returned 1000.
C17_Witness ==
    /\ obs.op = "get"
    /\ run.sinceSet = 800
    /\ ~hist.syncSinceSet
    /\ hist.setVal = U32(1000)
    /\ sys_time = U32(1000)

\* C18: a time_get makes the due check once, on entry, before the accumulation
\* loop and on the sys_time the previous operation left.  If sync_next <=
\* sys_time does not hold on entry, the provider is not invoked and sync_next
\* and the status stay as they were, also when the seconds the call adds take
\* sys_time to sync_next or beyond; if it holds and a provider is registered,
\* the provider is invoked, and a return of 0 re-arms sync_next from the
\* sys_time of entry, a return v other than 0 from v.
C18_CheckOnEntry ==
    [][obs'.op = "get" =>
          LET k == U32(U32Div(TickElapsed(tick, last_update), TICK_SECOND)) IN
          /\ U32Lt(sys_time, sync_next) =>
                 /\ ~obs'.invoked
                 /\ sync_next' = sync_next
                 /\ enTimeCurrentStatus' = enTimeCurrentStatus
                 /\ sys_time' = U32Add(sys_time, k)
          /\ (U32Leq(sync_next, sys_time) /\ time_provider_callback # 0) =>
                 /\ obs'.invoked
                 /\ obs'.ret = U32(0) =>
                        /\ sync_next' = U32Add(sys_time, sync_interval)
                        /\ sys_time' = U32Add(sys_time, k)
                 /\ obs'.ret # U32(0) =>
                        /\ sync_next' = U32Add(obs'.ret, sync_interval)
                        /\ sys_time' = obs'.ret
     ]_vars

\* A time_get with a provider registered that was not due on entry, added
\* seconds, and returned a value that is at least sync_next without having
\* invoked the provider.
C18_Witness ==
    /\ obs.op = "get"
    /\ time_provider_callback # 0
    /\ ~obs.invoked
    /\ U32Lt(obs.midSys, obs.midNext)
    /\ obs.iters > 0
    /\ U32Leq(sync_next, sys_time)
    /\ ~hist.ovf

\* C19: with the tick counter unchanged during the call, the accumulation
\* loop of time_get ends after floor(((tick - last_update) mod 2^32) /
\* TICK_SECOND) iterations, last_update being the one on entry to the loop
\* (the current tick after a sync that succeeded), each of which advanced
\* last_update by TICK_SECOND; when time_get returns,
\* (tick - last_update) mod 2^32 < TICK_SECOND, and so it is when time_set
\* returns.
C19_LoopBound ==
    [][/\ obs'.op \in GetOps =>
             LET entry == IF obs'.invoked /\ obs'.ret # U32(0)
                          THEN tick ELSE last_update
             IN
             /\ obs'.iters = U32Div(TickElapsed(tick, entry), TICK_SECOND)
             /\ last_update' = U32Add(entry, U32Mul(U32(TICK_SECOND), obs'.iters))
             /\ U32Lt(TickElapsed(tick', last_update'), U32(TICK_SECOND))
       /\ obs'.op = "set" =>
             U32Lt(TickElapsed(tick', last_update'), U32(TICK_SECOND))
     ]_vars

\* A time_get whose loop ran once for exactly TICK_SECOND ticks elapsed and
\* left none pending.
C19_Witness ==
    /\ obs.op = "get"
    /\ obs.iters = 1
    /\ last_update = tick
    /\ ~obs.invoked
    /\ obs.gap = [w |-> 0, u |-> U32(TICK_SECOND)]

\* C20: once the status is other than E_TIME_NOT_SET it never is
\* E_TIME_NOT_SET again, and the status becomes E_TIME_NEEDS_SYNC only in a run
\* of time_get whose provider, invoked because the sync was due, returned 0
\* while the status was E_TIME_OK (or was E_TIME_NEEDS_SYNC already).
C20_StatusOrder ==
    [][/\ enTimeCurrentStatus # E_TIME_NOT_SET
             => enTimeCurrentStatus' # E_TIME_NOT_SET
       /\ (/\ enTimeCurrentStatus' = E_TIME_NEEDS_SYNC
           /\ enTimeCurrentStatus # E_TIME_NEEDS_SYNC)
             => /\ obs'.op \in GetOps
                /\ obs'.invoked
                /\ obs'.ret = U32(0)
                /\ enTimeCurrentStatus = E_TIME_OK
     ]_vars

\* The status has become E_TIME_NEEDS_SYNC in the time_get of a
\* time_set_provider whose callback returned 0 after the clock had been set.
C20_Witness ==
    /\ obs.op = "provider"
    /\ SyncFailure
    /\ obs.preStatus = E_TIME_OK
    /\ enTimeCurrentStatus = E_TIME_NEEDS_SYNC
    /\ hist.setVal # <<>>

====
